---- MODULE Spec2Model ----
(***************************************************************************)
(* A model of texture_indexer.py: the TextureIndexer class (scanner and    *)
(* SQLite index store) as a state machine.                                 *)
(*                                                                         *)
(* Strings are sequences of one-character strings, so that substring       *)
(* tests, suffixes, case folding, LIKE matching and ordering are computed  *)
(* as the code (Python str, pathlib, SQLite) computes them.                *)
(***************************************************************************)
EXTENDS Integers, Sequences, FiniteSets, TLC

(***************************************************************************)
(* Strings                                                                 *)
(***************************************************************************)

\* The printable ASCII characters in code order, 32 (space) to 126 (~); the
\* double quote, the backslash and the backtick are held by name.
Ascii ==
  << " ", "!", "dquote", "#", "$", "%", "&", "'", "(", ")", "*", "+", ",", "-", ".", "/",
     "0", "1", "2", "3", "4", "5", "6", "7", "8", "9", ":", ";", "<", "=", ">", "?",
     "@", "A", "B", "C", "D", "E", "F", "G", "H", "I", "J", "K", "L", "M", "N", "O",
     "P", "Q", "R", "S", "T", "U", "V", "W", "X", "Y", "Z", "[", "backslash", "]", "^", "_",
     "backtick", "a", "b", "c", "d", "e", "f", "g", "h", "i", "j", "k", "l", "m", "n", "o",
     "p", "q", "r", "s", "t", "u", "v", "w", "x", "y", "z", "{", "|", "}", "~" >>

\* The code point of each character of the table, from position k on.
RECURSIVE CodesFrom(_)
CodesFrom(k) ==
  IF k > Len(Ascii) THEN << >> ELSE (Ascii[k] :> (31 + k)) @@ CodesFrom(k + 1)

CodeTable == CodesFrom(1)

\* The code point of a character.
Code(c) == CodeTable[c]

\* str.lower() on one ASCII character; also the case folding of SQLite's LIKE.
LowerChar(c) ==
  IF Code(c) >= 65 /\ Code(c) <= 90 THEN Ascii[Code(c) + 32 - 31] ELSE c

\* str.lower()
Lower(s) == [j \in 1..Len(s) |-> LowerChar(s[j])]

\* Python's `sub in s` for str: sub occurs in s as a contiguous substring.
Contains(s, sub) ==
  \E j \in 0..(Len(s) - Len(sub)) : SubSeq(s, j + 1, j + Len(sub)) = sub

\* str.endswith
EndsWith(s, suf) ==
  Len(suf) <= Len(s) /\ SubSeq(s, Len(s) - Len(suf) + 1, Len(s)) = suf

\* "/".join(parts)
RECURSIVE JoinSlash(_)
JoinSlash(parts) ==
  IF Len(parts) = 0 THEN << >>
  ELSE IF Len(parts) = 1 THEN parts[1]
  ELSE parts[1] \o << "/" >> \o JoinSlash(Tail(parts))

\* Lexicographic order on strings by code point: SQLite's BINARY collation,
\* which ORDER BY filename uses (the column declares no collation).
RECURSIVE StrLeq(_, _)
StrLeq(a, b) ==
  IF Len(a) = 0 THEN TRUE
  ELSE IF Len(b) = 0 THEN FALSE
  ELSE IF Code(a[1]) < Code(b[1]) THEN TRUE
  ELSE IF Code(a[1]) > Code(b[1]) THEN FALSE
  ELSE StrLeq(Tail(a), Tail(b))

\* SQLite's `s LIKE pat` with no ESCAPE clause: % matches any run of
\* characters, _ matches exactly one, any other character matches itself
\* up to ASCII case.
RECURSIVE Like(_, _)
Like(s, pat) ==
  IF Len(pat) = 0 THEN Len(s) = 0
  ELSE IF pat[1] = "%" THEN
         \/ Like(s, Tail(pat))
         \/ Len(s) > 0 /\ Like(Tail(s), pat)
  ELSE IF Len(s) = 0 THEN FALSE
  ELSE IF pat[1] = "_" THEN Like(Tail(s), Tail(pat))
  ELSE LowerChar(pat[1]) = LowerChar(s[1]) /\ Like(Tail(s), Tail(pat))

(***************************************************************************)
(* Words used to build the paths of the model                              *)
(***************************************************************************)
sRimWorld == << "R", "i", "m", "W", "o", "r", "l", "d" >>
sBiotech == << "B", "i", "o", "t", "e", "c", "h" >>
sIdeology == << "I", "d", "e", "o", "l", "o", "g", "y" >>
sRoyalty == << "R", "o", "y", "a", "l", "t", "y" >>
sAnomaly == << "A", "n", "o", "m", "a", "l", "y" >>
sOdyssey == << "O", "d", "y", "s", "s", "e", "y" >>
sArtSource == << "A", "r", "t", "S", "o", "u", "r", "c", "e" >>
sUnknown == << "U", "n", "k", "n", "o", "w", "n" >>
sCore == << "C", "o", "r", "e" >>
sUI == << "U", "I" >>
sEmpty == << >>

\* self.supported_formats
supported_formats ==
  { << ".", "p", "n", "g" >>, << ".", "j", "p", "g" >>, << ".", "j", "p", "e", "g" >>,
    << ".", "b", "m", "p" >>, << ".", "t", "g", "a" >>, << ".", "p", "s", "d" >> }

(***************************************************************************)
(* Paths.  extract_category_info and pathlib work on the segments of a     *)
(* path relative to base_path (Path.relative_to(base_path).parts).         *)
(***************************************************************************)

\* PurePath.name, from the parts
Name(parts) == parts[Len(parts)]

\* PurePath.suffix: the part of the name from its last dot, when that dot is
\* neither the first nor the last character of the name; else "".
Suffix(parts) ==
  LET name == Name(parts)
      dots == {k \in 1..Len(name) : name[k] = "."}
  IN IF dots = {} THEN sEmpty
     ELSE LET d == CHOOSE k \in dots : \A j \in dots : j <= k
          IN IF 1 < d /\ d < Len(name) THEN SubSeq(name, d, Len(name)) ELSE sEmpty

\* The category names tested by extract_category_info, in the order of its
\* if/elif chain.
CategoryNames == << sRimWorld, sBiotech, sIdeology, sRoyalty, sAnomaly, sOdyssey >>

\* art_source_prefixes
art_source_prefixes ==
  { sRimWorld \o sArtSource, sBiotech \o sArtSource, sIdeology \o sArtSource,
    sRoyalty \o sArtSource, sAnomaly \o sArtSource, sOdyssey \o sArtSource }

\* The chain with plain ifs in place of elifs: the last name contained wins.
RECURSIVE CategoryLast(_, _)
CategoryLast(first, k) ==
  IF k > Len(CategoryNames) THEN sUnknown
  ELSE LET later == CategoryLast(first, k + 1)
       IN IF later # sUnknown THEN later
          ELSE IF Contains(first, CategoryNames[k]) THEN CategoryNames[k]
          ELSE sUnknown

\* The if/elif chain of extract_category_info from position k of CategoryNames.
RECURSIVE CategoryFrom(_, _)
CategoryFrom(first, k) ==
  IF k > Len(CategoryNames) THEN sUnknown
  ELSE IF Contains(first, CategoryNames[k]) THEN CategoryNames[k]
  ELSE CategoryFrom(first, k + 1)

\* extract_category_info without the removal of a leading art source folder.
extract_category_info_keep(parts) ==
  IF Len(parts) = 0 THEN << sUnknown, sEmpty >>
  ELSE << CategoryFrom(parts[1], 1),
          IF Len(parts) > 2 THEN JoinSlash(SubSeq(parts, 2, Len(parts) - 1)) ELSE sEmpty >>

\* TextureIndexer.extract_category_info: <<category, subcategory>>.
extract_category_info(parts) ==
  IF Len(parts) = 0 THEN << sUnknown, sEmpty >>
  ELSE
    LET category == CategoryFrom(parts[1], 1)
        subcategory ==
          IF Len(parts) > 2
          THEN LET subcategory_parts == SubSeq(parts, 2, Len(parts) - 1)
               IN IF Len(subcategory_parts) > 0 /\ subcategory_parts[1] \in art_source_prefixes
                  THEN JoinSlash(Tail(subcategory_parts))
                  ELSE JoinSlash(subcategory_parts)
          ELSE sEmpty
    IN << category, subcategory >>

(***************************************************************************)
(* Bounds of the model                                                     *)
(***************************************************************************)

\* File modification times range over 0..MaxTime clock ticks.
MaxTime == 2
\* Clock ticks per microsecond: datetime.fromtimestamp(...).isoformat() keeps
\* microseconds, the file system's timestamps are finer.
TicksPerMicro == 2
\* The wall clock of CURRENT_TIMESTAMP ranges over 0..MaxClock seconds.
MaxClock == 1
\* No more than MaxId rows are ever inserted (AUTOINCREMENT ids 1..MaxId).
MaxId == 3
\* No more than MaxDiskChanges changes of the directory tree are followed.
MaxDiskChanges == 1

(***************************************************************************)
(* The directory tree                                                      *)
(***************************************************************************)

\* The files that may exist under base_path, by their path string
\* (str(file_path), less the base_path prefix).
Paths == { "RimWorld/w.png", "Core/UI/b.jpg", "Core/.png", "n.txt" }

\* Path(p).relative_to(base_path).parts
Parts(p) ==
  CASE p = "RimWorld/w.png" -> << sRimWorld, << "w", ".", "p", "n", "g" >> >>
    [] p = "Core/UI/b.jpg" -> << sCore, sUI, << "b", ".", "j", "p", "g" >> >>
    [] p = "Core/.png" -> << sCore, << ".", "p", "n", "g" >> >>
    [] p = "n.txt" -> << << "n", ".", "t", "x", "t" >> >>

\* No file at a path; no row (None) for a path.
Absent == [ absent |-> TRUE ]
NoRow == [ none |-> TRUE ]

\* What stat(), Image.open() and open().read() observe of a file.
FileStates ==
  [ mtime : 0..MaxTime, ctime : {0}, size : {8}, dims : { << 4, 2 >> },
    decodable : BOOLEAN, readable : BOOLEAN, content : {"bytes"} ]

\* An intact file.
Fresh == [ mtime |-> 0, ctime |-> 0, size |-> 8, dims |-> << 4, 2 >>,
           decodable |-> TRUE, readable |-> TRUE, content |-> "bytes" ]

\* The fields of the TextureInfo dataclass.
TextureInfoFields ==
  { "path", "filename", "category", "subcategory", "file_size", "width", "height",
    "format", "hash_md5", "created_date", "modified_date" }

VARIABLES
  disk,            \* the directory tree: Paths -> FileStates or Absent
  diskChanges,     \* how many times the tree has changed
  rows,            \* table textures as the open connection sees it
  seq,             \* sqlite_sequence of the AUTOINCREMENT id, as the connection sees it
  committed,       \* [rows, seq] as last committed
  now,             \* the wall clock, in seconds
  pc,              \* "idle", "loop" (inside index_directory's for loop), "aborted"
  texture_files,   \* index_directory's list of enumerated files
  i,               \* how many entries of texture_files the loop has handled
  indexed_count,   \* index_directory's indexed_count
  skipped_count,   \* index_directory's skipped_count
  total_files,     \* index_directory's total_files
  sinceCommit,     \* history: how many files the run has handled since its last
                   \* commit, or since it started
  saved,           \* history: the argument of the latest save_texture_info call
  lastUpsert,      \* history: per path, the record of the latest upsert in effect
  committedUpsert, \* history: lastUpsert as of the last commit
  clean,           \* history: the tree has not changed since the latest run started
  quiet,           \* history: the latest run completed, and neither the tree nor
                   \* the table has changed since that run started
  runQuiet,        \* history: the value of quiet when the latest run started
  query,           \* the arguments of the last search_textures call
  results,         \* the list the last search_textures call returned
  catParts,        \* the argument of the last extract_category_info call
  catResult,       \* what it returned
  mainPc,          \* where main is: "start", "connect", "schema", "index", "stats",
                   \* "search", "gui", "finally", "exited"
  conn,            \* the indexer's connection: "none", "open", "closed"
  args,            \* main's parsed arguments
  raised           \* the part of main that raised, "no" if none has

dbVars == << rows, seq, committed, now >>
runVars == << pc, texture_files, i, indexed_count, skipped_count, total_files, sinceCommit >>
histVars == << saved, lastUpsert, committedUpsert, clean, quiet, runQuiet >>
searchVars == << query, results >>
catVars == << catParts, catResult >>
mainVars == << mainPc, conn, args, raised >>
vars == << disk, diskChanges, dbVars, runVars, histVars, searchVars, catVars, mainVars >>

(***************************************************************************)
(* Scanner                                                                 *)
(***************************************************************************)

\* datetime.fromtimestamp(t).isoformat(): the timestamp to the microsecond.
\* The string is held as its microsecond count.
IsoFormat(t) == t \div TicksPerMicro

\* TextureIndexer.get_file_hash: the digest of the bytes, "" when they cannot
\* be read. The MD5 digest is held as the pair <<"md5", bytes>>.
get_file_hash(f) == IF f.readable THEN << "md5", f.content >> ELSE sEmpty

\* TextureIndexer.get_image_dimensions
get_image_dimensions(f) == IF f.decodable THEN f.dims ELSE << 0, 0 >>

\* What the code derives from a path alone, computed once per path:
\* file_path.name, file_path.suffix.lower(), extract_category_info(file_path),
\* and the supported formats ext whose pattern "*" + ext matches the name.
RECURSIVE PathInfoOver(_)
PathInfoOver(S) ==
  IF S = {} THEN << >>
  ELSE LET p == CHOOSE x \in S : TRUE
       IN (p :> [ name |-> Name(Parts(p)), format |-> Lower(Suffix(Parts(p))),
                  cat |-> extract_category_info(Parts(p)),
                  globs |-> { ext \in supported_formats : EndsWith(Name(Parts(p)), ext) } ])
          @@ PathInfoOver(S \ {p})

PathInfo == PathInfoOver(Paths)

\* index_file as it would be were get_image_dimensions and get_file_hash to
\* let their exceptions out: index_file's own handler turns them into None.
index_file_strict(d, p) ==
  IF PathInfo[p].format \notin supported_formats THEN NoRow
  ELSE IF d[p] = Absent THEN NoRow
  ELSE IF ~d[p].decodable \/ ~d[p].readable THEN NoRow
  ELSE [ path |-> p, filename |-> PathInfo[p].name,
         category |-> PathInfo[p].cat[1], subcategory |-> PathInfo[p].cat[2],
         file_size |-> d[p].size, width |-> d[p].dims[1], height |-> d[p].dims[2],
         format |-> PathInfo[p].format, hash_md5 |-> << "md5", d[p].content >>,
         created_date |-> IsoFormat(d[p].ctime), modified_date |-> IsoFormat(d[p].mtime) ]

\* TextureIndexer.index_file on path p, the tree being d: a TextureInfo, or
\* NoRow for an unsupported suffix or a failing stat().
index_file(d, p) ==
  IF PathInfo[p].format \notin supported_formats THEN NoRow
  ELSE IF d[p] = Absent THEN NoRow
  ELSE
    LET f == d[p]
        wh == get_image_dimensions(f)
    IN [ path |-> p, filename |-> PathInfo[p].name,
         category |-> PathInfo[p].cat[1], subcategory |-> PathInfo[p].cat[2],
         file_size |-> f.size, width |-> wh[1], height |-> wh[2],
         format |-> PathInfo[p].format, hash_md5 |-> get_file_hash(f),
         created_date |-> IsoFormat(f.ctime), modified_date |-> IsoFormat(f.mtime) ]

\* base_path.rglob("*" + ext) over the tree d: the present files whose name
\* matches the pattern.
rglob(d, ext) == { p \in Paths : d[p] # Absent /\ ext \in PathInfo[p].globs }

\* The lists index_directory may build: for each supported format in turn (the
\* iteration order of a set), the files rglob yields (in directory order).
Enumerations(d) ==
  LET found == UNION { rglob(d, ext) : ext \in supported_formats }
      ExtOf(p) == CHOOSE ext \in PathInfo[p].globs : TRUE
  IN { s \in [1..Cardinality(found) -> found] :
         /\ \A a, b \in DOMAIN s : a # b => s[a] # s[b]
         /\ \A a, b, c \in DOMAIN s :
              (a < b /\ b < c /\ ExtOf(s[a]) = ExtOf(s[c])) => ExtOf(s[b]) = ExtOf(s[a]) }

(***************************************************************************)
(* Index store                                                             *)
(***************************************************************************)

\* The metadata columns of a row, as a TextureInfo.
Meta(row) == [ k \in TextureInfoFields |-> row[k] ]

\* TextureIndexer.get_texture_by_path: SELECT * FROM textures WHERE path = ?,
\* fetchone().
get_texture_by_path(tbl, p) ==
  IF \E r \in tbl : r.path = p THEN CHOOSE r \in tbl : r.path = p ELSE NoRow

\* The row save_texture_info inserts.
NewRow(s, info, t) ==
  [ k \in TextureInfoFields \cup {"id", "indexed_date"} |->
      IF k = "id" THEN s + 1 ELSE IF k = "indexed_date" THEN t ELSE info[k] ]

\* save_texture_info as a plain INSERT on a table whose path is not UNIQUE.
save_append(tbl, s, info, t) ==
  [ rows |-> tbl \cup { NewRow(s, info, t) }, seq |-> s + 1 ]

\* save_texture_info as INSERT OR IGNORE: a row in conflict stays.
save_ignore(tbl, s, info, t) ==
  [ rows |-> IF \E r \in tbl : r.path = info.path THEN tbl
             ELSE tbl \cup { NewRow(s, info, t) },
    seq |-> s + 1 ]

\* save_texture_info that also deletes the rows of files no longer on disk.
save_prune(tbl, s, info, t) ==
  [ rows |-> { r \in tbl : r.path # info.path /\ disk[r.path] # Absent }
             \cup { NewRow(s, info, t) },
    seq |-> s + 1 ]

\* TextureIndexer.save_texture_info: INSERT OR REPLACE INTO textures. The row
\* in conflict on the UNIQUE path is deleted, the new one gets the next
\* AUTOINCREMENT id and indexed_date = CURRENT_TIMESTAMP (t).
save_texture_info(tbl, s, info, t) ==
  [ rows |-> { r \in tbl : r.path # info.path } \cup { NewRow(s, info, t) },
    seq |-> s + 1 ]

\* The comparison made on the raw timestamp instead of its formatted string.
UpToDateRaw(existing, f) == existing.modified_date = f.mtime

\* The comparison as "the row is not older than the file".
UpToDateNotOlder(existing, f) == existing.modified_date <= IsoFormat(f.mtime)

\* The comparison of index_directory: the stored modified_date against the
\* file's formatted modification time.
UpToDate(existing, f) == existing.modified_date = IsoFormat(f.mtime)

\* The line of index_directory that commits every 100th file.
CommitEvery == 100

\* self.conn.commit()
Commit(tbl, s) == [ rows |-> tbl, seq |-> s ]

\* The commit at the end of the loop body, n files having been handled.
BatchCommits(n) == n % CommitEvery = 0

(***************************************************************************)
(* Initial state: a new database, a tree of intact files                   *)
(***************************************************************************)
InitIndexer ==
  /\ disk = [p \in Paths |-> Fresh]
  /\ diskChanges = 0
  /\ rows = {}
  /\ seq = 0
  /\ committed = Commit({}, 0)
  /\ now = 0
  /\ pc = "idle"
  /\ texture_files = << >>
  /\ i = 0
  /\ indexed_count = 0
  /\ skipped_count = 0
  /\ total_files = 0
  /\ sinceCommit = 0
  /\ saved = NoRow
  /\ lastUpsert = [p \in Paths |-> NoRow]
  /\ committedUpsert = [p \in Paths |-> NoRow]
  /\ clean = FALSE
  /\ quiet = FALSE
  /\ runQuiet = FALSE
  /\ query = NoRow
  /\ results = << >>
  /\ mainPc = "start"
  /\ conn = "none"
  /\ args = NoRow
  /\ raised = "no"

Init ==
  /\ InitIndexer
  /\ catParts = << >>
  /\ catResult = << >>

(***************************************************************************)
(* The environment: the tree changes                                       *)
(***************************************************************************)

\* The states a file at path p is followed through: index_file reads the
\* attributes of a file only past its suffix test, so only the presence of a
\* file that fails the test matters.
Variants(p) == IF PathInfo[p].format \in supported_formats THEN FileStates ELSE {Fresh}

DiskChange ==
  /\ diskChanges < MaxDiskChanges
  /\ \E p \in Paths : \E f \in Variants(p) \cup {Absent} :
       /\ f # disk[p]
       /\ disk' = [disk EXCEPT ![p] = f]
  /\ diskChanges' = diskChanges + 1
  /\ clean' = FALSE
  /\ quiet' = FALSE
  /\ UNCHANGED << dbVars, runVars, saved, lastUpsert, committedUpsert, runQuiet,
                  searchVars, catVars, mainVars >>

(***************************************************************************)
(* index_directory                                                         *)
(***************************************************************************)

\* Lines 191-202: enumerate the files, reset the counters.
StartIndex ==
  /\ pc = "idle"
  /\ texture_files' \in Enumerations(disk)
  /\ total_files' = Len(texture_files')
  /\ pc' = "loop"
  /\ i' = 0
  /\ sinceCommit' = 0
  /\ indexed_count' = 0
  /\ skipped_count' = 0
  /\ clean' = TRUE
  /\ runQuiet' = quiet
  /\ quiet' = FALSE
  /\ UNCHANGED << disk, diskChanges, dbVars, saved, lastUpsert, committedUpsert,
                  searchVars, catVars, mainVars >>

\* The file the loop handles next and its row, if any.
CurrentFile == texture_files[i + 1]
Existing == get_texture_by_path(rows, CurrentFile)
InLoop == pc = "loop" /\ i < Len(texture_files)

\* Lines 209-214: the file has a row and is up to date: count it and continue,
\* past the batch commit.
SkipFile ==
  /\ InLoop
  /\ Existing # NoRow
  /\ disk[CurrentFile] # Absent
  /\ UpToDate(Existing, disk[CurrentFile])
  /\ skipped_count' = skipped_count + 1
  /\ i' = i + 1
  /\ sinceCommit' = sinceCommit + 1
  /\ UNCHANGED << disk, diskChanges, dbVars, pc, texture_files, total_files, indexed_count,
                  histVars, searchVars, catVars, mainVars >>

\* Line 211: the file has a row and stat() raises: the exception leaves
\* index_directory.
StatError ==
  /\ InLoop
  /\ Existing # NoRow
  /\ disk[CurrentFile] = Absent
  /\ pc' = "aborted"
  /\ quiet' = FALSE
  /\ UNCHANGED << disk, diskChanges, dbVars, texture_files, total_files, sinceCommit, i,
                  indexed_count, skipped_count, saved, lastUpsert, committedUpsert, clean, runQuiet,
                  searchVars, catVars, mainVars >>

\* Whether the loop body goes on to index_file: no row, or a stale one.
Stale ==
  IF Existing = NoRow THEN TRUE
  ELSE disk[CurrentFile] # Absent /\ ~UpToDate(Existing, disk[CurrentFile])

\* Lines 216-223: index_file gives a record, save_texture_info stores it.
IndexFile ==
  /\ InLoop
  /\ Stale
  /\ index_file(disk, CurrentFile) # NoRow
  /\ seq < MaxId
  /\ \E t \in now..MaxClock :
       LET info == index_file(disk, CurrentFile)
           db == save_texture_info(rows, seq, info, t)
           ups == [lastUpsert EXCEPT ![CurrentFile] = info]
       IN /\ rows' = db.rows
          /\ seq' = db.seq
          /\ now' = t
          /\ lastUpsert' = ups
          /\ saved' = info
          /\ IF BatchCommits(i + 1)
             THEN committed' = Commit(db.rows, db.seq) /\ committedUpsert' = ups
             ELSE UNCHANGED << committed, committedUpsert >>
  /\ indexed_count' = indexed_count + 1
  /\ i' = i + 1
  /\ sinceCommit' = IF BatchCommits(i + 1) THEN 0 ELSE sinceCommit + 1
  /\ UNCHANGED << disk, diskChanges, pc, texture_files, total_files, skipped_count,
                  clean, quiet, runQuiet, searchVars, catVars, mainVars >>

\* Lines 216-217, 221-223: index_file gives None, nothing is saved.
RejectFile ==
  /\ InLoop
  /\ Stale
  /\ index_file(disk, CurrentFile) = NoRow
  /\ IF BatchCommits(i + 1)
     THEN committed' = Commit(rows, seq) /\ committedUpsert' = lastUpsert
     ELSE UNCHANGED << committed, committedUpsert >>
  /\ i' = i + 1
  /\ sinceCommit' = IF BatchCommits(i + 1) THEN 0 ELSE sinceCommit + 1
  /\ UNCHANGED << disk, diskChanges, rows, seq, now, pc, texture_files, total_files, indexed_count,
                  skipped_count, saved, lastUpsert, clean, quiet, runQuiet, searchVars, catVars, mainVars >>

\* Line 218 inside a try whose handler goes on with the next file.
WriteErrorSwallowed ==
  /\ InLoop
  /\ Stale
  /\ index_file(disk, CurrentFile) # NoRow
  /\ i' = i + 1
  /\ sinceCommit' = sinceCommit + 1
  /\ UNCHANGED << disk, diskChanges, dbVars, pc, texture_files, total_files,
                  indexed_count, skipped_count, histVars, searchVars, catVars, mainVars >>

\* Line 218: cursor.execute raises (a store write error): the statement has no
\* effect and the exception leaves index_directory.
WriteError ==
  /\ InLoop
  /\ Stale
  /\ index_file(disk, CurrentFile) # NoRow
  /\ pc' = "aborted"
  /\ quiet' = FALSE
  /\ UNCHANGED << disk, diskChanges, dbVars, texture_files, total_files, sinceCommit, i,
                  indexed_count, skipped_count, saved, lastUpsert, committedUpsert, clean, runQuiet,
                  searchVars, catVars, mainVars >>

\* index_directory without its final commit.
FinishIndexNoCommit ==
  /\ pc = "loop"
  /\ i = Len(texture_files)
  /\ pc' = "idle"
  /\ quiet' = clean
  /\ UNCHANGED << disk, diskChanges, dbVars, texture_files, total_files, sinceCommit, i,
                  indexed_count, skipped_count, saved, lastUpsert, committedUpsert, clean,
                  runQuiet, searchVars, catVars, mainVars >>

\* Lines 225-226: the loop is over, commit.
FinishIndex ==
  /\ pc = "loop"
  /\ i = Len(texture_files)
  /\ committed' = Commit(rows, seq)
  /\ committedUpsert' = lastUpsert
  /\ pc' = "idle"
  /\ quiet' = clean
  /\ sinceCommit' = 0
  /\ UNCHANGED << disk, diskChanges, rows, seq, now, texture_files, total_files, i, indexed_count,
                  skipped_count, saved, lastUpsert, clean, runQuiet, searchVars, catVars, mainVars >>

\* The process ends (by the exception, or with uncommitted rows) and a new
\* one opens the database: close() without commit drops what was not
\* committed; init_database changes no row.
Restart ==
  /\ pc = "aborted" \/ (pc = "idle" /\ rows # committed.rows)
  /\ rows' = committed.rows
  /\ seq' = committed.seq
  /\ lastUpsert' = committedUpsert
  /\ pc' = "idle"
  /\ quiet' = FALSE
  /\ UNCHANGED << disk, diskChanges, committed, now, texture_files, total_files, sinceCommit, i, indexed_count,
                  skipped_count, saved, committedUpsert, clean, runQuiet, searchVars, catVars, mainVars >>

\* The program as main and the GUI drive it: only index_directory writes.
NextIndex ==
  \/ DiskChange
  \/ StartIndex
  \/ SkipFile
  \/ StatError
  \/ IndexFile
  \/ RejectFile
  \/ WriteError
  \/ FinishIndex
  \/ Restart

SpecIndex == Init /\ [][NextIndex]_vars

(***************************************************************************)
(* The class as a library: save_texture_info called directly               *)
(***************************************************************************)

\* The records passed to save_texture_info: two per path, which differ in
\* width and in modified_date.
SaveRecords ==
  { [ path |-> p, filename |-> << "x" >>, category |-> sUnknown, subcategory |-> sEmpty,
      file_size |-> 1, width |-> 3 * v, height |-> 3, format |-> << ".", "p", "n", "g" >>,
      hash_md5 |-> sEmpty, created_date |-> 0, modified_date |-> v ] :
    p \in Paths, v \in {0, 1} }

\* save_texture_info(info) outside index_directory; nothing commits.
Save ==
  /\ pc = "idle"
  /\ seq < MaxId
  /\ \E info \in SaveRecords : \E t \in now..MaxClock :
       LET db == save_texture_info(rows, seq, info, t)
       IN /\ rows' = db.rows
          /\ seq' = db.seq
          /\ now' = t
          /\ lastUpsert' = [lastUpsert EXCEPT ![info.path] = info]
          /\ saved' = info
  /\ quiet' = FALSE
  /\ UNCHANGED << disk, diskChanges, committed, runVars, committedUpsert, clean,
                  runQuiet, searchVars, catVars, mainVars >>

\* save_texture_info calls and index_directory runs, in any order, over a
\* tree that does not change and a store that takes every write.
Next ==
  \/ Save
  \/ StartIndex
  \/ SkipFile
  \/ IndexFile
  \/ RejectFile
  \/ FinishIndex
  \/ Restart

Spec == Init /\ [][Next]_vars

(***************************************************************************)
(* search_textures                                                         *)
(***************************************************************************)

\* The defaults of search_textures' parameters.
DefaultMinWidth == 0
DefaultMaxWidth == 999999
DefaultMinHeight == 0
DefaultMaxHeight == 999999
DefaultLimit == 1000

\* The WHERE clause search_textures builds from its arguments q: a clause is
\* added for a non-empty string, a lower bound above 0 and an upper bound
\* below 999999.
Matches(r, q) ==
  /\ q.filename_pattern # sEmpty =>
       Like(r.filename, << "%" >> \o q.filename_pattern \o << "%" >>)
  /\ q.category # sEmpty => r.category = q.category
  /\ q.subcategory # sEmpty =>
       Like(r.subcategory, << "%" >> \o q.subcategory \o << "%" >>)
  /\ q.min_width > 0 => r.width >= q.min_width
  /\ q.max_width < 999999 => r.width <= q.max_width
  /\ q.min_height > 0 => r.height >= q.min_height
  /\ q.max_height < 999999 => r.height <= q.max_height
  /\ q.format_filter # sEmpty => r.format = q.format_filter

\* ORDER BY filename: a sequence is in ascending order of filename; rows of
\* equal filename come in any order.
OrderedByFilename(s) ==
  \A j, k \in 1..Len(s) : j < k => StrLeq(s[j].filename, s[k].filename)

\* The rows in any order, cut at n: search_textures without its ORDER BY.
AnyOrderLimit(m, n) ==
  LET len == IF Cardinality(m) < n THEN Cardinality(m) ELSE n
  IN { s \in [1..len -> m] : \A j, k \in 1..len : j # k => s[j] # s[k] }

\* ORDER BY filename LIMIT n over the set of rows m: the sequences of n
\* distinct rows of m, (all of m when it has no more than n), in ascending
\* order of filename, no row left out sorting before a row returned.
OrderLimit(m, n) ==
  LET len == IF Cardinality(m) < n THEN Cardinality(m) ELSE n
  IN { s \in [1..len -> m] :
         /\ \A j, k \in 1..len : j # k => s[j] # s[k]
         /\ OrderedByFilename(s)
         /\ \A r \in m : (\A j \in 1..len : s[j] # r) =>
              \A j \in 1..len : StrLeq(s[j].filename, r.filename) }

\* TextureIndexer.search_textures with arguments q on table tbl: the lists
\* the SELECT can return.
search_textures(tbl, q) == OrderLimit({ r \in tbl : Matches(r, q) }, q.limit)

\* search_textures called with defaults for everything but the given fields.
NoFilter(limit) ==
  [ filename_pattern |-> sEmpty, category |-> sEmpty, subcategory |-> sEmpty,
    min_width |-> DefaultMinWidth, max_width |-> DefaultMaxWidth,
    min_height |-> DefaultMinHeight, max_height |-> DefaultMaxHeight,
    format_filter |-> sEmpty, limit |-> limit ]

\* The records stored for searching: filenames apart by case and by an
\* underscore, widths up to one above the default max_width.
SearchRecords ==
  { [ path |-> p, filename |-> SearchShapes[1], category |-> sUnknown,
      subcategory |-> sEmpty, file_size |-> 1, width |-> SearchShapes[2], height |-> 3,
      format |-> << ".", "p", "n", "g" >>, hash_md5 |-> sEmpty,
      created_date |-> 0, modified_date |-> 0 ] :
    p \in Paths,
    SearchShapes \in { << << "a" >>, 1 >>, << << "a" >>, 2 >>, << << "B" >>, 2 >>,
                       << << "_", "a" >>, DefaultMaxWidth + 1 >> } }

\* The calls of search_textures followed: with no filter, with a width range
\* only, with a filename pattern only, each with small limits and with the
\* default one.
Limits == { 1, 2, DefaultLimit }
Patterns == { << "a" >>, << "b" >>, << "_" >>, << "%" >> }
Queries ==
  { NoFilter(n) : n \in Limits }
  \cup { [ NoFilter(n) EXCEPT !.min_width = lo, !.max_width = hi ] :
           n \in {2, DefaultLimit}, lo \in {0, 1, 2}, hi \in {1, 2, DefaultMaxWidth} }
  \cup { [ NoFilter(n) EXCEPT !.filename_pattern = pat ] :
           n \in {2, DefaultLimit}, pat \in Patterns }

\* save_texture_info(info) with a record to search for; it ends the search
\* that was shown.
Store ==
  /\ pc = "idle"
  /\ seq < MaxId
  /\ \E info \in SearchRecords :
       LET db == save_texture_info(rows, seq, info, now)
       IN /\ rows' = db.rows
          /\ seq' = db.seq
          /\ lastUpsert' = [lastUpsert EXCEPT ![info.path] = info]
          /\ saved' = info
  /\ query' = NoRow
  /\ results' = << >>
  /\ quiet' = FALSE
  /\ UNCHANGED << disk, diskChanges, committed, now, runVars, committedUpsert, clean,
                  runQuiet, catVars, mainVars >>

\* search_textures(**q). One call is followed per content of the table: a
\* further call would lead to the states the first one leads to.
Search ==
  /\ pc = "idle"
  /\ query = NoRow
  /\ \E q \in Queries : \E res \in search_textures(rows, q) :
       /\ query' = q
       /\ results' = res
  /\ UNCHANGED << disk, diskChanges, dbVars, runVars, histVars, catVars, mainVars >>

NextSearch ==
  \/ Store
  \/ Search

SpecSearch == Init /\ [][NextSearch]_vars

(***************************************************************************)
(* extract_category_info on its own                                        *)
(***************************************************************************)

\* First segments are made of up to MaxWords words.
MaxWords == 2

CatWords ==
  { sRimWorld, sBiotech, sIdeology, sRoyalty, sAnomaly, sOdyssey, sCore, Lower(sRimWorld) }

RECURSIVE SegmentsOf(_)
SegmentsOf(n) ==
  IF n = 0 THEN { sEmpty }
  ELSE SegmentsOf(n - 1) \cup { a \o w : a \in SegmentsOf(n - 1), w \in CatWords }

\* Folder and file names of the paths given to extract_category_info.
sBuildings == << "B", "u", "i", "l", "d", "i", "n", "g", "s" >>
sWallPng == << "w", "a", "l", "l", ".", "p", "n", "g" >>
CatFolders == { sUI, sBuildings, sBiotech \o sArtSource }

\* RimWorldArtSource/Buildings/wall.png
ArtSourceExample == << sRimWorld \o sArtSource, sBuildings, sWallPng >>

\* The relative paths given to extract_category_info: none, a file directly
\* under the root, a file in a folder, a file two and three folders down.
CatInputs ==
  { << >>, ArtSourceExample }
  \cup { << a >> : a \in SegmentsOf(MaxWords) \ { sEmpty } }
  \cup { << a, sWallPng >> : a \in SegmentsOf(MaxWords) \ { sEmpty } }
  \cup { << a, b, sWallPng >> : a \in SegmentsOf(MaxWords) \ { sEmpty }, b \in CatFolders }
  \cup { << a, b, c, sWallPng >> :
           a \in SegmentsOf(MaxWords) \ { sEmpty }, b \in CatFolders, c \in CatFolders }

InitCategory ==
  /\ InitIndexer
  /\ catParts \in CatInputs
  /\ catResult = << >>

\* extract_category_info(base_path / catParts)
ExtractCategory ==
  /\ catResult = << >>
  /\ catResult' = extract_category_info(catParts)
  /\ UNCHANGED << disk, diskChanges, dbVars, runVars, histVars, searchVars, catParts, mainVars >>

NextCategory == ExtractCategory

SpecCategory == InitCategory /\ [][NextCategory]_vars

(***************************************************************************)
(* index_directory over long enumerations: its counters and its commits    *)
(***************************************************************************)

\* The enumeration is up to MaxExtra files longer than one batch.
MaxExtra == 1

\* The lengths of the enumerations followed.
BatchSizes == { 1, CommitEvery, CommitEvery + MaxExtra }

\* Lines 191-202 with the list of files left out: only its length is kept.
\* One run is followed.
BatchStart ==
  /\ pc = "idle"
  /\ total_files = 0
  /\ total_files' \in BatchSizes
  /\ pc' = "loop"
  /\ i' = 0
  /\ indexed_count' = 0
  /\ skipped_count' = 0
  /\ sinceCommit' = 0
  /\ UNCHANGED << disk, diskChanges, dbVars, texture_files, histVars, searchVars, catVars, mainVars >>

\* Inside the for loop, the list being left out.
InBatch == pc = "loop" /\ i < total_files

\* Lines 209-214: the file has a row of the same modified_date; `continue`
\* goes to the next file past the test of line 221.
BatchSkip ==
  /\ InBatch
  /\ skipped_count' = skipped_count + 1
  /\ i' = i + 1
  /\ sinceCommit' = sinceCommit + 1
  /\ UNCHANGED << disk, diskChanges, dbVars, pc, texture_files, total_files, indexed_count,
                  histVars, searchVars, catVars, mainVars >>

\* Lines 216-223: the file is indexed and saved (the row is left out), then
\* every 100th file commits.
BatchIndex ==
  /\ InBatch
  /\ indexed_count' = indexed_count + 1
  /\ i' = i + 1
  /\ sinceCommit' = IF BatchCommits(i + 1) THEN 0 ELSE sinceCommit + 1
  /\ UNCHANGED << disk, diskChanges, dbVars, pc, texture_files, total_files, skipped_count,
                  histVars, searchVars, catVars, mainVars >>

\* Lines 216-217, 221-223: index_file gives None; every 100th file commits.
BatchReject ==
  /\ InBatch
  /\ i' = i + 1
  /\ sinceCommit' = IF BatchCommits(i + 1) THEN 0 ELSE sinceCommit + 1
  /\ UNCHANGED << disk, diskChanges, dbVars, pc, texture_files, total_files, indexed_count,
                  skipped_count, histVars, searchVars, catVars, mainVars >>

\* Lines 225-226: the loop is over, commit.
BatchFinish ==
  /\ pc = "loop"
  /\ i = total_files
  /\ pc' = "idle"
  /\ sinceCommit' = 0
  /\ UNCHANGED << disk, diskChanges, dbVars, texture_files, total_files, i, indexed_count,
                  skipped_count, histVars, searchVars, catVars, mainVars >>

NextBatch ==
  \/ BatchStart
  \/ BatchSkip
  \/ BatchIndex
  \/ BatchReject
  \/ BatchFinish

SpecBatch == Init /\ [][NextBatch]_vars

(***************************************************************************)
(* main: the life of the connection. What the calls do to the table is in  *)
(* the specifications above; here each call returns or raises.             *)
(***************************************************************************)

\* The parsed command lines: --gui is a store_true flag whose default is
\* True, so args.gui is always true.
ArgSets == [ index : BOOLEAN, stats : BOOLEAN, search : BOOLEAN, gui : { TRUE } ]

\* Lines 628-642: parse_args
ParseArgs ==
  /\ mainPc = "start"
  /\ args' \in ArgSets
  /\ mainPc' = "connect"
  /\ UNCHANGED << disk, diskChanges, dbVars, runVars, histVars, searchVars, catVars,
                  conn, raised >>

\* Lines 645, 46-49, 53-54: the constructor calls init_database, which
\* connects.
Connect ==
  /\ mainPc = "connect"
  /\ conn' = "open"
  /\ mainPc' = "schema"
  /\ UNCHANGED << disk, diskChanges, dbVars, runVars, histVars, searchVars, catVars,
                  args, raised >>

\* Line 53: sqlite3.connect raises; the exception leaves the constructor and
\* main, which has not entered its try.
ConnectError ==
  /\ mainPc = "connect"
  /\ raised' = "init"
  /\ mainPc' = "exited"
  /\ UNCHANGED << disk, diskChanges, dbVars, runVars, histVars, searchVars, catVars,
                  conn, args >>

\* Lines 57-90: the schema, the indexes, the pragmas, the commit; main
\* enters its try.
CreateSchema ==
  /\ mainPc = "schema"
  /\ mainPc' = "index"
  /\ UNCHANGED << disk, diskChanges, dbVars, runVars, histVars, searchVars, catVars,
                  conn, args, raised >>

\* Lines 57-90: a statement of init_database raises; the exception leaves
\* the constructor and main, which has not entered its try.
SchemaError ==
  /\ mainPc = "schema"
  /\ raised' = "init"
  /\ mainPc' = "exited"
  /\ UNCHANGED << disk, diskChanges, dbVars, runVars, histVars, searchVars, catVars,
                  conn, args >>

\* Lines 648-650: index_directory is not asked for, or returns, and main goes on; or
\* it raises, and main goes to its finally.
MainIndex ==
  /\ mainPc = "index"
  /\ \/ mainPc' = "stats" /\ raised' = raised
     \/ args.index /\ mainPc' = "finally" /\ raised' = "index"
  /\ UNCHANGED << disk, diskChanges, dbVars, runVars, histVars, searchVars, catVars,
                  conn, args >>

\* Lines 652-659: get_statistics is not asked for, or returns, and main goes on; or
\* it raises, and main goes to its finally.
MainStats ==
  /\ mainPc = "stats"
  /\ \/ mainPc' = "search" /\ raised' = raised
     \/ args.stats /\ mainPc' = "finally" /\ raised' = "stats"
  /\ UNCHANGED << disk, diskChanges, dbVars, runVars, histVars, searchVars, catVars,
                  conn, args >>

\* Lines 661-670: search_textures is not asked for, or returns, and main goes on; or
\* it raises, and main goes to its finally.
MainSearch ==
  /\ mainPc = "search"
  /\ \/ mainPc' = "gui" /\ raised' = raised
     \/ args.search /\ mainPc' = "finally" /\ raised' = "search"
  /\ UNCHANGED << disk, diskChanges, dbVars, runVars, histVars, searchVars, catVars,
                  conn, args >>

\* Lines 672-675: the GUI is not asked for, or returns, and main goes on; or
\* it raises, and main goes to its finally.
MainGui ==
  /\ mainPc = "gui"
  /\ \/ mainPc' = "finally" /\ raised' = raised
     \/ args.gui /\ mainPc' = "finally" /\ raised' = "gui"
  /\ UNCHANGED << disk, diskChanges, dbVars, runVars, histVars, searchVars, catVars,
                  conn, args >>

\* TextureIndexer.close
close(c) == IF c = "none" THEN c ELSE "closed"

\* Lines 677-678: finally: indexer.close(); main returns or the exception
\* goes on.
Finally ==
  /\ mainPc = "finally"
  /\ conn' = close(conn)
  /\ mainPc' = "exited"
  /\ UNCHANGED << disk, diskChanges, dbVars, runVars, histVars, searchVars, catVars,
                  args, raised >>

NextMain ==
  \/ ParseArgs
  \/ Connect
  \/ ConnectError
  \/ CreateSchema
  \/ SchemaError
  \/ MainIndex
  \/ MainStats
  \/ MainSearch
  \/ MainGui
  \/ Finally

SpecMain == Init /\ [][NextMain]_vars

(***************************************************************************)
(* Properties of the incremental scan (SpecIndex)                          *)
(***************************************************************************)

\* The paths of a table.
PathsOf(tbl) == { r.path : r \in tbl }

\* The entries of texture_files handled so far that have a row.
HandledWithRow == { k \in 1..i : get_texture_by_path(rows, texture_files[k]) # NoRow }

\* C1: a run that starts after a completed run, with no change of the tree
\* since that run started (and no other write to the table), performs no
\* upsert: every file handled that has a row was skipped by the timestamp
\* comparison, and the table is as committed.
C1_RescanWritesNothing ==
  (runQuiet /\ clean /\ pc # "aborted") =>
    /\ indexed_count = 0
    /\ skipped_count = Cardinality(HandledWithRow)
    /\ rows = committed.rows
    /\ seq = committed.seq

\* C1 happens: a second run over an unchanged tree has finished, having
\* skipped two indexed files.
C1_Witness ==
  runQuiet /\ clean /\ pc = "idle" /\ skipped_count = 2 /\ Cardinality(rows) = 2

\* A step of the loop body that handles the current file, which has a row and
\* can be stat()ed.
HandlesIndexedFile ==
  /\ InLoop
  /\ Existing # NoRow
  /\ disk[CurrentFile] # Absent
  /\ i' = i + 1

\* C4: a file that has a row is re-computed and upserted exactly when its
\* formatted modification time differs from the stored modified_date; when
\* they are equal the table is left as it is, row ids and indexed_date
\* included.
C4_StaleExactlyWhenTimestampDiffers ==
  [][ HandlesIndexedFile =>
        IF Existing.modified_date # IsoFormat(disk[CurrentFile].mtime)
        THEN /\ seq' = seq + 1
             /\ indexed_count' = indexed_count + 1
             /\ \E r \in rows' :
                  /\ r.path = CurrentFile
                  /\ r.id = seq'
                  /\ r.modified_date = IsoFormat(disk[CurrentFile].mtime)
                  /\ r.width = get_image_dimensions(disk[CurrentFile])[1]
                  /\ r.hash_md5 = get_file_hash(disk[CurrentFile])
        ELSE /\ rows' = rows
             /\ seq' = seq
             /\ skipped_count' = skipped_count + 1 ]_vars

\* C4 happens: in one run a file was skipped and another, whose row was
\* stale, was upserted again (its id is beyond the number of rows).
C4_Witness ==
  /\ pc = "loop"
  /\ skipped_count >= 1
  /\ indexed_count >= 1
  /\ \E r \in rows : r.id > Cardinality(rows) /\ r.modified_date = IsoFormat(MaxTime)

\* A step of the loop body on a damaged file with a supported extension that
\* is not up to date, other than a change of the tree or a store write error.
HandlesDamagedFile ==
  /\ InLoop
  /\ disk[CurrentFile] # Absent
  /\ Lower(Suffix(Parts(CurrentFile))) \in supported_formats
  /\ ~disk[CurrentFile].decodable \/ ~disk[CurrentFile].readable
  /\ \/ Existing = NoRow
     \/ Existing.modified_date # IsoFormat(disk[CurrentFile].mtime)
  /\ disk' = disk
  /\ ~WriteError

\* C8: a file with a supported extension whose image cannot be decoded, or
\* whose bytes cannot be read, is upserted all the same, with width 0 and
\* height 0 (respectively an empty hash), and the run goes on with the next
\* file of the list.
C8_DamagedFileStillIndexed ==
  [][ HandlesDamagedFile =>
        /\ \E r \in rows' :
             /\ r.path = CurrentFile
             /\ r.id = seq + 1
             /\ ~disk[CurrentFile].decodable => (r.width = 0 /\ r.height = 0)
             /\ ~disk[CurrentFile].readable => r.hash_md5 = sEmpty
             /\ disk[CurrentFile].decodable => << r.width, r.height >> = disk[CurrentFile].dims
             /\ disk[CurrentFile].readable => r.hash_md5 # sEmpty
        /\ pc' = "loop"
        /\ i' = i + 1
        /\ texture_files' = texture_files ]_vars

\* C8 happens: a run has finished in which a file that could be neither
\* decoded nor read was upserted and a later file was upserted after it.
C8_Witness ==
  /\ pc = "idle"
  /\ indexed_count >= 2
  /\ \E r, r2 \in rows :
       r.width = 0 /\ r.height = 0 /\ r.hash_md5 = sEmpty /\ r2.id > r.id /\ r2.width # 0

\* A step of index_directory.
IndexStep == pc = "loop" \/ pc' = "loop"

\* C9: over the steps of index_directory the set of paths in the table never
\* shrinks and the row of a file that is no longer on disk stays as it is;
\* over every step, no path leaves the committed table, and the committed
\* row of a file no longer on disk stays or gives way to the row the
\* connection holds for that path.
C9_NoPruning ==
  [][ /\ IndexStep =>
           /\ PathsOf(rows) \subseteq PathsOf(rows')
           /\ \A r \in rows : disk[r.path] = Absent => r \in rows'
      /\ PathsOf(committed.rows) \subseteq PathsOf(committed'.rows)
      /\ \A r \in committed.rows : disk[r.path] = Absent =>
           \/ r \in committed'.rows
           \/ \E r2 \in rows : r2.path = r.path /\ r2 \in committed'.rows ]_vars

\* C9 happens: a run has completed over a tree from which an indexed file is
\* gone, and its row is still there, committed.
C9_Witness ==
  /\ quiet
  /\ pc = "idle"
  /\ \E r \in rows : disk[r.path] = Absent /\ r \in committed.rows

(***************************************************************************)
(* Properties of the store (Spec)                                          *)
(***************************************************************************)

\* C2: after any sequence of save_texture_info calls and index_directory runs
\* the table holds at most one row per path, and the row of a path carries
\* the fields of the latest upsert for that path.
C2_UpsertReplaces ==
  /\ \A r1, r2 \in rows : r1.path = r2.path => r1 = r2
  /\ \A p \in Paths :
       IF lastUpsert[p] = NoRow THEN p \notin PathsOf(rows)
       ELSE \E r \in rows : r.path = p /\ Meta(r) = lastUpsert[p]

\* C2 happens: a directly saved row and an indexed row are in the table, and
\* some row replaced an earlier one (its id is beyond the number of rows).
C2_Witness ==
  /\ \E r \in rows : r.filename = << "x" >>
  /\ \E r \in rows : r.category = sRimWorld
  /\ \E r \in rows : r.id > Cardinality(rows)

\* C3: right after save_texture_info(info), whatever the table held,
\* get_texture_by_path(info.path) finds a row, and its metadata fields are
\* those of info.
C3_SaveThenLookup ==
  [][ seq' = seq + 1 =>
        LET row == get_texture_by_path(rows', saved'.path)
        IN /\ row # NoRow
           /\ \A k \in TextureInfoFields : row[k] = saved'[k] ]_vars

\* C3 happens: a record was saved over a row of the same path that differed
\* from it.
C3_Witness ==
  /\ saved # NoRow
  /\ saved.width = 3
  /\ \E r \in rows, c \in committed.rows :
       r.path = saved.path /\ c.path = saved.path /\ r.id > c.id /\ c.width # 3

(***************************************************************************)
(* Properties of search_textures (SpecSearch)                              *)
(***************************************************************************)

\* The rows of a result list.
Returned == { results[j] : j \in 1..Len(results) }

\* The search shown was called with no filter.
NoFilterShown == query # NoRow /\ query = NoFilter(query.limit)

\* The search shown was called with a width range and no other filter.
WidthOnlyShown ==
  /\ query # NoRow
  /\ query = [ NoFilter(query.limit) EXCEPT !.min_width = query.min_width,
                                             !.max_width = query.max_width ]

\* The search shown was called with a filename pattern and no other filter.
PatternOnlyShown ==
  /\ query # NoRow
  /\ query.filename_pattern # sEmpty
  /\ query = [ NoFilter(query.limit) EXCEPT !.filename_pattern = query.filename_pattern ]

\* C5 as stated: search_textures with no filter returns all the records of
\* the store, in ascending order of filename, however many are stored.
C5_NoFilterReturnsAll ==
  NoFilterShown => (Returned = rows /\ OrderedByFilename(results))

\* C5, amended: search_textures with no filter returns records of the store
\* in ascending order of filename, each once, as many as the store holds but
\* no more than limit (1000 unless given); a record left out sorts no
\* earlier than the ones returned.
C5_NoFilterReturnsFirstRows ==
  NoFilterShown =>
    /\ OrderedByFilename(results)
    /\ Returned \subseteq rows
    /\ Cardinality(Returned) = Len(results)
    /\ Len(results) = IF Cardinality(rows) <= query.limit THEN Cardinality(rows)
                      ELSE query.limit
    /\ \A r \in rows \ Returned : \A x \in Returned : StrLeq(x.filename, r.filename)

\* C5 happens: a search with no filter and limit 2 over three records has
\* returned two of them, of different filenames.
C5_Witness ==
  /\ NoFilterShown
  /\ Cardinality(rows) = 3
  /\ Len(results) = 2
  /\ results[1].filename # results[2].filename

\* C6 as stated, for the calls whose limit leaves no row out: search_textures
\* with a width range only returns exactly the rows whose width lies between
\* min_width and max_width, both included.
C6_WidthRangeExact ==
  (WidthOnlyShown /\ Cardinality(rows) <= query.limit) =>
    Returned = { r \in rows : query.min_width <= r.width /\ r.width <= query.max_width }

\* C7 as stated: search_textures with a non-empty filename pattern only
\* returns rows whose filename contains the pattern as a literal substring,
\* and all of them when the limit leaves no row out.
C7_PatternIsLiteralSubstring ==
  PatternOnlyShown =>
    /\ \A r \in Returned : Contains(r.filename, query.filename_pattern)
    /\ Cardinality(rows) <= query.limit =>
         \A r \in rows : Contains(r.filename, query.filename_pattern) => r \in Returned

(***************************************************************************)
(* Properties of extract_category_info (SpecCategory)                      *)
(***************************************************************************)

\* The order of names the category is said to be looked up in.
ClaimedOrder == << sRimWorld, sBiotech, sIdeology, sRoyalty, sAnomaly, sOdyssey >>

\* C10: the category returned is the first name of the order RimWorld,
\* Biotech, Ideology, Royalty, Anomaly, Odyssey that the first segment of the
\* relative path contains, and "Unknown" when it contains none.
C10_CategoryIsFirstMatchInOrder ==
  (catResult # << >> /\ Len(catParts) > 0) =>
    LET hits == { k \in 1..Len(ClaimedOrder) : Contains(catParts[1], ClaimedOrder[k]) }
    IN IF hits = {} THEN catResult[1] = sUnknown
       ELSE catResult[1] = ClaimedOrder[CHOOSE k \in hits : \A j \in hits : k <= j]

\* C10 happens: the first segment contains Biotech and then RimWorld, and the
\* category returned is RimWorld.
C10_Witness ==
  /\ catResult # << >>
  /\ Len(catParts) > 0
  /\ catParts[1] = sBiotech \o sRimWorld
  /\ catResult[1] = sRimWorld

\* The folder names said to be art source aliases.
ClaimedAliases ==
  { w \o sArtSource : w \in { sRimWorld, sBiotech, sIdeology, sRoyalty, sAnomaly, sOdyssey } }

\* C11: the subcategory returned is made of the segments strictly between
\* the first segment and the filename, less the first of them when it is an
\* art source alias, joined with "/"; it is empty when nothing is left; and
\* RimWorldArtSource/Buildings/wall.png gives RimWorld and Buildings.
C11_SubcategoryIsInnerFolders ==
  catResult # << >> =>
    LET n == Len(catParts)
        inner == [ k \in 1..(IF n > 2 THEN n - 2 ELSE 0) |-> catParts[k + 1] ]
        kept == IF Len(inner) > 0 /\ inner[1] \in ClaimedAliases THEN Tail(inner) ELSE inner
    IN /\ catResult[2] = JoinSlash(kept)
       /\ kept = << >> => catResult[2] = sEmpty
       /\ catParts = ArtSourceExample => catResult = << sRimWorld, sBuildings >>

\* C11 happens: of the folders BiotechArtSource/UI below the first segment
\* the subcategory returned is UI.
C11_Witness ==
  /\ catResult # << >>
  /\ Len(catParts) = 4
  /\ catParts[2] = sBiotech \o sArtSource
  /\ catParts[3] = sUI
  /\ catResult[2] = sUI

(***************************************************************************)
(* Properties of the batched commits (SpecBatch)                           *)
(***************************************************************************)

\* C12 as stated: whenever the number of files handled so far is a multiple
\* of 100, a commit has been issued since the last of them was handled, and
\* never more than 100 files are handled between two commits.
C12_CommitEveryHundredHandled ==
  pc = "loop" =>
    /\ (i > 0 /\ i % 100 = 0) => sinceCommit = 0
    /\ sinceCommit <= 100

(***************************************************************************)
(* Properties of a failing run (SpecIndex)                                 *)
(***************************************************************************)

\* C13: a write error of save_texture_info ends the run there: the failing
\* write changes nothing, the exception leaves index_directory, and from
\* then on the run handles no file and commits nothing, so the upserts it
\* had made since its last commit stay out of the committed table; the
\* connection is left only by dropping them.
C13_WriteErrorEndsRun ==
  [][ /\ WriteError =>
           /\ pc' = "aborted"
           /\ i' = i
           /\ rows' = rows
           /\ committed' = committed
      /\ pc = "aborted" =>
           /\ i' = i
           /\ indexed_count' = indexed_count
           /\ skipped_count' = skipped_count
           /\ committed' = committed
           /\ rows' = rows \/ (pc' = "idle" /\ rows' = committed.rows) ]_vars

\* C13 happens: on a tree that never changed, a run has indexed a file, not
\* committed it, and stopped before the end of its list.
C13_Witness ==
  /\ pc = "aborted"
  /\ diskChanges = 0
  /\ indexed_count >= 1
  /\ i < total_files
  /\ \E r \in rows : r \notin committed.rows

(***************************************************************************)
(* Properties of main (SpecMain)                                           *)
(***************************************************************************)

\* C14 as stated: whichever way main is left, normally or by an error
\* raised in database initialisation, indexing, statistics, search or the
\* GUI, a connection that was opened has been closed.
C14_ConnectionClosedOnExit ==
  mainPc = "exited" => conn # "open"

(***************************************************************************)
(* Properties of a completed run (SpecIndex)                               *)
(***************************************************************************)

\* index_directory returns normally, the tree not having changed since the
\* run started.
CompletesClean == pc = "loop" /\ pc' = "idle" /\ clean

\* C15: when index_directory completes normally and the tree has not
\* changed during the run, every enumerated file that index_file makes a
\* record of has a row in the committed table, whose modified_date is the
\* formatted modification time the file has on disk.
C15_CompletedRunIsCommitted ==
  [][ CompletesClean =>
        \A k \in 1..Len(texture_files) :
          LET p == texture_files[k]
          IN (disk[p] # Absent /\ Lower(Suffix(Parts(p))) \in supported_formats) =>
               \E r \in committed'.rows :
                 r.path = p /\ r.modified_date = IsoFormat(disk[p].mtime) ]_vars

\* C15 happens: a run over a tree changed before it has completed, having
\* skipped a file and upserted again one whose row was stale, and all is
\* committed.
C15_Witness ==
  /\ pc = "idle"
  /\ quiet
  /\ diskChanges >= 1
  /\ skipped_count >= 1
  /\ indexed_count >= 1
  /\ rows = committed.rows
  /\ \E r \in rows : r.id > Cardinality(rows)

====
